---- MODULE Spec2Model ----
(***************************************************************************)
(* Model of api/app.py: the FastAPI handlers chat, upload_pdf_rag,         *)
(* chat_rag and list_pdfs over the process-wide dictionary pdf_documents.  *)
(* The handlers run on one asyncio event loop: a handler runs atomically   *)
(* between two awaits, so every action below is the code between two       *)
(* suspension points (an await, or a yield of a response generator).       *)
(***************************************************************************)
EXTENDS Integers, Sequences, FiniteSets, TLC

VARIABLES
    pdf_documents,  \* app.py:53, the dictionary pdf_id -> document data
    pdf_order,      \* the insertion order of pdf_documents (a Python dict is ordered)
    tempfiles,      \* the temporary files that exist on disk (named by their upload)
    up,             \* one upload_pdf_rag request each
    rag,            \* one chat_rag request each
    chat,           \* one chat request each
    lst,            \* one list_pdfs request each
    calc            \* one call of a library function: its arguments and its result

vars == <<pdf_documents, pdf_order, tempfiles, up, rag, chat, lst, calc>>

----------------------------------------------------------------------------
(* Bounds *)

NumUploads == 2     \* concurrent upload_pdf_rag requests
MaxStream == 3      \* chunks a provider stream emits at most

Uploads == 1..NumUploads
Ids == 1..NumUploads            \* the values uuid4() returns
RequestIds == Ids \cup {0}      \* the pdf_id of a request: any of them, or no uuid at all
RagRequests == {"r1"}
ChatRequests == {"c1"}
ListRequests == {"l1"}

MaxTextLength == 8  \* longest text given to the splitter alone
MaxChunkSize == 4   \* largest chunk size given to the splitter alone

MaxStore == 3       \* most entries of a vector store searched alone
MaxK == 3           \* largest k of a search called alone

(* Program constants *)
chunk_size == 1000
chunk_overlap == 200
k == 3

----------------------------------------------------------------------------
(* Inputs *)

\* file names as character sequences
Filenames == { <<"a", ".", "p", "d", "f">>,
               <<"B", ".", "P", "D", "F">>,
               <<"c", ".", "t", "x", "t">> }

TextLen == 1500     \* length of the text extracted from an uploaded file
LongTextLen == 3000 \* length of the text of the first upload's file, a longer one
text_length(u) == IF u = 1 THEN LongTextLen ELSE TextLen

\* the chunk contents a provider stream emits on the passthrough path:
\* delta.content is a text or None
None == "None"
Fragments == {"Hel", "lo"}
Deltas == Fragments \cup {None}

Queries == {"q1"}

\* what file.read() returns: a PDF with text, a PDF without text, bytes that
\* are no PDF
Contents == {"text", "empty", "corrupt"}

----------------------------------------------------------------------------
(* str.lower() and str.endswith('.pdf') *)

lower(c) ==
    CASE c = "P" -> "p"
      [] c = "D" -> "d"
      [] c = "F" -> "f"
      [] c = "B" -> "b"
      [] OTHER -> c

endswith_pdf(name) ==
    /\ Len(name) >= 4
    /\ LET tail == SubSeq(name, Len(name) - 3, Len(name))
       IN  [i \in 1..4 |-> lower(tail[i])] = <<".", "p", "d", "f">>

----------------------------------------------------------------------------
(* Exceptions and responses *)

NoExc == [type |-> "none", status_code |-> 0, detail |-> ""]
HTTPException(code, detail) ==
    [type |-> "HTTPException", status_code |-> code, detail |-> detail]
ProviderError(detail) ==
    [type |-> "ProviderError", status_code |-> 0, detail |-> detail]
ExtractError == [type |-> "ExtractError", status_code |-> 0, detail |-> "cannot read PDF"]
\* what temp_file.write (or the flush at the end of the with block) raises when
\* the bytes cannot be written
WriteError == [type |-> "OSError", status_code |-> 0, detail |-> "No space left on device"]

\* str(e): starlette's HTTPException prints "<status_code>: <detail>"
str(e) ==
    IF e.type = "HTTPException"
    THEN ToString(e.status_code) \o ": " \o e.detail
    ELSE e.detail

NoResp == [status_code |-> 0, detail |-> "", content |-> <<>>]
ErrorResponse(e) == [status_code |-> e.status_code, detail |-> e.detail, content |-> <<>>]
JSONResponse(content) == [status_code |-> 200, detail |-> "", content |-> content]
StreamingResponse == [status_code |-> 200, detail |-> "", content |-> <<>>]

\* "except Exception as e: raise HTTPException(status_code=500, ...)"
except_upload(e) == HTTPException(500, "Error processing PDF: " \o str(e))
except_chat_rag(e) == HTTPException(500, "Error in RAG chat: " \o str(e))
except_chat(e) == HTTPException(500, str(e))

----------------------------------------------------------------------------
(* aimakerspace: text splitter, embedding capability, vector database *)

\* a text is a span [start, stop) of the text extracted from upload doc's file
Text(doc, start, stop) == [doc |-> doc, start |-> start, stop |-> stop]
TextLength(t) == t.stop - t.start

Min(a, b) == IF a <= b THEN a ELSE b

\* as split_from, with the loop "for i in range(0, len(text), size - overlap)":
\* a window is cut at every start below the end of the text
RECURSIVE split_from_range(_, _, _, _)
split_from_range(t, i, size, overlap) ==
    LET start == t.start + i * (size - overlap)
        stop  == Min(start + size, t.stop)
    IN  IF start >= t.stop THEN <<>>
        ELSE << Text(t.doc, start, stop) >> \o split_from_range(t, i + 1, size, overlap)

\* CharacterTextSplitter.split: chunk i starts at i * (chunk_size - chunk_overlap)
RECURSIVE split_from(_, _, _, _)
split_from(t, i, size, overlap) ==
    LET start == t.start + i * (size - overlap)
        stop  == Min(start + size, t.stop)
    IN  IF TextLength(t) = 0 THEN <<>>
        ELSE IF stop = t.stop THEN << Text(t.doc, start, stop) >>
        ELSE << Text(t.doc, start, stop) >> \o split_from(t, i + 1, size, overlap)

split(t, size, overlap) == split_from(t, 0, size, overlap)

\* CharacterTextSplitter.split_texts: the chunks of every text, in order
RECURSIVE split_texts(_, _, _)
split_texts(texts, size, overlap) ==
    IF texts = <<>> THEN <<>>
    ELSE split(Head(texts), size, overlap) \o split_texts(Tail(texts), size, overlap)

\* the embedding capability: a fixed vector per text
QueryText(q) == [doc |-> 0, start |-> 0, stop |-> 0]
Embedding(t) ==
    IF t.doc = 0 THEN <<1, 2>>
    ELSE CASE (t.start \div (chunk_size - chunk_overlap)) % 3 = 0 -> <<1, 0>>
           [] (t.start \div (chunk_size - chunk_overlap)) % 3 = 1 -> <<0, 1>>
           [] OTHER -> <<1, 1>>

Dot(a, b) == a[1] * b[1] + a[2] * b[2]
Sign(x) == IF x > 0 THEN 1 ELSE IF x < 0 THEN -1 ELSE 0

\* cosine_similarity(a, q) > cosine_similarity(b, q), for non-zero vectors:
\* the two sides are Dot(a,q)/|a| and Dot(b,q)/|b|, compared by sign and square
CosineGreater(a, b, q) ==
    LET da == Dot(a, q)
        db == Dot(b, q)
        x  == da * da * Dot(b, b)
        y  == db * db * Dot(a, a)
    IN  IF Sign(da) # Sign(db) THEN Sign(da) > Sign(db)
        ELSE IF Sign(da) >= 0 THEN x > y
        ELSE x < y

\* as Best, with equal scores in the order of a sort that is not stable: the
\* highest index first
Best_Unstable(db, S, q) ==
    CHOOSE i \in S :
        \A j \in S \ {i} :
            \/ CosineGreater(db[i].vector, db[j].vector, q)
            \/ (~CosineGreater(db[j].vector, db[i].vector, q) /\ i > j)

\* index of the entry that sorts first among the indices in S: the highest
\* score, and among equal scores the lowest index
Best(db, S, q) ==
    CHOOSE i \in S :
        \A j \in S \ {i} :
            \/ CosineGreater(db[i].vector, db[j].vector, q)
            \/ (~CosineGreater(db[j].vector, db[i].vector, q) /\ i < j)

RECURSIVE Ranked(_, _, _, _)
Ranked(db, S, q, n) ==
    IF S = {} \/ n = 0 THEN <<>>
    ELSE LET b == Best(db, S, q)
         IN  << db[b].text >> \o Ranked(db, S \ {b}, q, n - 1)

\* VectorDatabase.search_by_text(query, k, return_as_text=True), once the
\* query is embedded as q
search_by_text(db, q, n) == Ranked(db, DOMAIN db, q, n)

\* as join, with "".join(texts): the texts follow each other directly
join_NoSeparator(texts) == texts

\* "\n\n".join(texts)
Separator == [doc |-> 0, start |-> 0, stop |-> 2]
RECURSIVE join(_)
join(texts) ==
    IF Len(texts) <= 1 THEN texts
    ELSE << Head(texts), Separator >> \o join(Tail(texts))

----------------------------------------------------------------------------
(* Initial state: the module has just been imported *)

UpInit == [pc |-> "idle", filename |-> <<>>, pdf_id |-> 0, content |-> "",
           documents |-> <<>>,
           chunks |-> <<>>, vector_db |-> <<>>, embed_calls |-> 0,
           raised |-> NoExc, resp |-> NoResp]

RagInit == [pc |-> "idle", pdf_id |-> 0, context |-> <<>>, embed_calls |-> 0,
            gen_calls |-> 0, produced |-> <<>>, delivered |-> <<>>,
            terminal |-> "none", caller |-> "connected", raised |-> NoExc,
            resp |-> NoResp]

ChatInit == [pc |-> "idle", gen_calls |-> 0, produced |-> <<>>,
             delivered |-> <<>>, terminal |-> "none", caller |-> "connected",
             raised |-> NoExc, resp |-> NoResp]

ListInit == [pc |-> "idle", resp |-> <<>>]

NoCalc == [stage |-> "none"]

\* the handlers' variables when the module has just been imported
InitApp ==
    /\ pdf_documents = <<>>
    /\ pdf_order = <<>>
    /\ tempfiles = {}
    /\ up = [u \in Uploads |-> UpInit]
    /\ rag = [r \in RagRequests |-> RagInit]
    /\ chat = [c \in ChatRequests |-> ChatInit]
    /\ lst = [l \in ListRequests |-> ListInit]

Init == InitApp /\ calc = NoCalc

----------------------------------------------------------------------------
(* upload_pdf_rag, app.py:93-150 *)

\* uuid.uuid4(): a value no earlier call returned
Generated == { up[u].pdf_id : u \in Uploads } \ {0}
FreshIds == Ids \ Generated

\* as UploadValidate, without the file type check of lines 100-101
UploadValidate_NoCheck(u) ==
    /\ up[u].pc = "idle"
    /\ \E name \in Filenames, id \in FreshIds :
            up' = [up EXCEPT ![u] = [@ EXCEPT !.pc = "reading",
                                             !.filename = name,
                                             !.pdf_id = id]]
    /\ UNCHANGED <<calc, pdf_documents, pdf_order, tempfiles, rag, chat, lst>>

\* lines 98-107: the file type check, the new id, up to "await file.read()"
UploadValidate(u) ==
    /\ up[u].pc = "idle"
    /\ \E name \in Filenames :
        IF ~endswith_pdf(name)
        THEN LET e == HTTPException(400, "Only PDF files are allowed")
             IN  up' = [up EXCEPT ![u] = [@ EXCEPT !.pc = "done",
                                             !.filename = name,
                                             !.raised = e,
                                             !.resp = ErrorResponse(except_upload(e))]]
        ELSE \E id \in FreshIds :
                up' = [up EXCEPT ![u] = [@ EXCEPT !.pc = "reading",
                                             !.filename = name,
                                             !.pdf_id = id]]
    /\ UNCHANGED <<calc, pdf_documents, pdf_order, tempfiles, rag, chat, lst>>

\* PDFLoader(path).load_documents(): the texts extracted from the file
load_documents(u, content) ==
    IF content = "text" THEN << Text(u, 0, text_length(u)) >> ELSE <<>>

\* lines 107-128: file.read() has returned; the temporary file is created
\* (delete=False) and written, the text is extracted and split, the empty
\* VectorDatabase is created and abuild_from_list is awaited. An exception
\* raised in the inner try block runs the finally clause (line 147) and the
\* outer except clause (149-150). The with block of lines 110-112 stands
\* before the inner try: an exception raised by the write runs the outer
\* except clause only (the bytes play no part then: one case stands for all).
UploadLoad(u) ==
    /\ up[u].pc = "reading"
    /\ \E content \in Contents, written \in BOOLEAN :
        LET documents == load_documents(u, content)
            e == IF content = "corrupt" THEN ExtractError
                 ELSE HTTPException(400, "No text content found in PDF")
        IN  IF ~written
            THEN /\ content = "text"
                 /\ up' = [up EXCEPT ![u] = [@ EXCEPT
                            !.pc = "done",
                            !.raised = WriteError,
                            !.resp = ErrorResponse(except_upload(WriteError))]]
                 /\ tempfiles' = tempfiles \cup {u}
            ELSE IF content = "corrupt" \/ documents = <<>>
            THEN /\ up' = [up EXCEPT ![u] = [@ EXCEPT
                            !.pc = "done",
                            !.content = content,
                            !.raised = e,
                            !.resp = ErrorResponse(except_upload(e))]]
                 /\ tempfiles' = tempfiles \ {u}
            ELSE /\ up' = [up EXCEPT ![u] = [@ EXCEPT
                            !.pc = "building",
                            !.content = content,
                            !.documents = documents,
                            !.chunks = split_texts(documents, chunk_size, chunk_overlap),
                            !.vector_db = <<>>]]
                 /\ tempfiles' = tempfiles \cup {u}
    /\ UNCHANGED <<calc, pdf_documents, pdf_order, rag, chat, lst>>

\* as UploadEmbed, with the store of lines 131-136 placed before the await of
\* line 128: the dictionary holds the document while its store is being built
UploadEmbed_StoreEarly(u) ==
    /\ up[u].pc = "building"
    /\ Len(up[u].vector_db) < Len(up[u].chunks)
    /\ LET t == up[u].chunks[Len(up[u].vector_db) + 1]
           db == Append(up[u].vector_db, [text |-> t, vector |-> Embedding(t)])
       IN  /\ up' = [up EXCEPT ![u] = [@ EXCEPT !.embed_calls = @ + 1,
                                                !.vector_db = db]]
           /\ pdf_documents' = (up[u].pdf_id :> [filename |-> up[u].filename,
                                                 chunks |-> up[u].chunks,
                                                 vector_db |-> db,
                                                 document_count |-> Len(up[u].chunks)])
                               @@ pdf_documents
           /\ pdf_order' = IF up[u].pdf_id \in DOMAIN pdf_documents THEN pdf_order
                           ELSE Append(pdf_order, up[u].pdf_id)
    /\ UNCHANGED <<calc, tempfiles, rag, chat, lst>>

\* abuild_from_list: one embedding call returns its vector
UploadEmbed(u) ==
    /\ up[u].pc = "building"
    /\ Len(up[u].vector_db) < Len(up[u].chunks)
    /\ LET t == up[u].chunks[Len(up[u].vector_db) + 1]
       IN  up' = [up EXCEPT ![u] = [@ EXCEPT
                    !.embed_calls = @ + 1,
                    !.vector_db = Append(@, [text |-> t, vector |-> Embedding(t)])]]
    /\ UNCHANGED <<calc, pdf_documents, pdf_order, tempfiles, rag, chat, lst>>

\* as UploadEmbedFail, with the store of lines 131-136 placed in the finally
\* clause: the partly built document is kept
UploadEmbedFail_KeepPartial(u) ==
    /\ up[u].pc = "building"
    /\ Len(up[u].vector_db) < Len(up[u].chunks)
    /\ up' = [up EXCEPT ![u] = [@ EXCEPT
                    !.pc = "done",
                    !.embed_calls = @ + 1,
                    !.raised = ProviderError("embedding failed"),
                    !.resp = ErrorResponse(except_upload(ProviderError("embedding failed")))]]
    /\ pdf_documents' = (up[u].pdf_id :> [filename |-> up[u].filename,
                                          chunks |-> up[u].chunks,
                                          vector_db |-> up[u].vector_db,
                                          document_count |-> Len(up[u].chunks)])
                        @@ pdf_documents
    /\ pdf_order' = Append(pdf_order, up[u].pdf_id)
    /\ tempfiles' = tempfiles \ {u}
    /\ UNCHANGED <<calc, rag, chat, lst>>

\* abuild_from_list: one embedding call fails, the await raises
UploadEmbedFail(u) ==
    /\ up[u].pc = "building"
    /\ Len(up[u].vector_db) < Len(up[u].chunks)
    /\ up' = [up EXCEPT ![u] = [@ EXCEPT
                    !.pc = "done",
                    !.embed_calls = @ + 1,
                    !.raised = ProviderError("embedding failed"),
                    !.resp = ErrorResponse(except_upload(ProviderError("embedding failed")))]]
    /\ tempfiles' = tempfiles \ {u}
    /\ UNCHANGED <<calc, pdf_documents, pdf_order, rag, chat, lst>>

\* as UploadStore, with "pdf_documents = {pdf_id: ...}" for the item
\* assignment of line 131: the earlier insertions are lost
UploadStore_Rebind(u) ==
    /\ up[u].pc = "building"
    /\ Len(up[u].vector_db) = Len(up[u].chunks)
    /\ LET id == up[u].pdf_id
           document == [filename |-> up[u].filename,
                        chunks |-> up[u].chunks,
                        vector_db |-> up[u].vector_db,
                        document_count |-> Len(up[u].chunks)]
       IN  /\ pdf_documents' = (id :> document)
           /\ pdf_order' = << id >>
           /\ up' = [up EXCEPT ![u] = [@ EXCEPT
                        !.pc = "done",
                        !.resp = JSONResponse([pdf_id |-> id,
                                               filename |-> up[u].filename,
                                               chunks |-> Len(up[u].chunks)])]]
    /\ tempfiles' = tempfiles \ {u}
    /\ UNCHANGED <<calc, rag, chat, lst>>

\* as UploadStore, with "document_count": len(documents) at line 135: the
\* extracted texts are counted, not the chunks
UploadStore_CountDocuments(u) ==
    /\ up[u].pc = "building"
    /\ Len(up[u].vector_db) = Len(up[u].chunks)
    /\ LET id == up[u].pdf_id
           document == [filename |-> up[u].filename,
                        chunks |-> up[u].chunks,
                        vector_db |-> up[u].vector_db,
                        document_count |-> Len(up[u].documents)]
       IN  /\ pdf_documents' = (id :> document) @@ pdf_documents
           /\ pdf_order' = IF id \in DOMAIN pdf_documents THEN pdf_order
                           ELSE Append(pdf_order, id)
           /\ up' = [up EXCEPT ![u] = [@ EXCEPT
                        !.pc = "done",
                        !.resp = JSONResponse([pdf_id |-> id,
                                               filename |-> up[u].filename,
                                               chunks |-> Len(up[u].chunks)])]]
    /\ tempfiles' = tempfiles \ {u}
    /\ UNCHANGED <<calc, rag, chat, lst>>

\* lines 130-147: abuild_from_list has returned; the document is stored, the
\* response is built and the temporary file is removed
UploadStore(u) ==
    /\ up[u].pc = "building"
    /\ Len(up[u].vector_db) = Len(up[u].chunks)
    /\ LET id == up[u].pdf_id
           document == [filename |-> up[u].filename,
                        chunks |-> up[u].chunks,
                        vector_db |-> up[u].vector_db,
                        document_count |-> Len(up[u].chunks)]
       IN  /\ pdf_documents' = (id :> document) @@ pdf_documents
           /\ pdf_order' = IF id \in DOMAIN pdf_documents THEN pdf_order
                           ELSE Append(pdf_order, id)
           /\ up' = [up EXCEPT ![u] = [@ EXCEPT
                        !.pc = "done",
                        !.resp = JSONResponse([pdf_id |-> id,
                                               filename |-> up[u].filename,
                                               chunks |-> Len(up[u].chunks)])]]
    /\ tempfiles' = tempfiles \ {u}
    /\ UNCHANGED <<calc, rag, chat, lst>>

\* the request is cancelled while the handler awaits: CancelledError is no
\* Exception, so only the finally clause runs
UploadCancel(u) ==
    /\ up[u].pc \in {"reading", "building"}
    /\ up' = [up EXCEPT ![u] = [@ EXCEPT !.pc = "cancelled"]]
    /\ tempfiles' = tempfiles \ {u}
    /\ UNCHANGED <<calc, pdf_documents, pdf_order, rag, chat, lst>>

----------------------------------------------------------------------------
(* list_pdfs, app.py:209-221 *)

list_entry(id) == [pdf_id |-> id,
                   filename |-> pdf_documents[id].filename,
                   chunks |-> pdf_documents[id].document_count]

\* as ListPdfs, with the loop of line 214 stopping one item early
ListPdfs_SkipLast(l) ==
    /\ lst[l].pc = "idle"
    /\ lst' = [lst EXCEPT ![l] =
                [pc |-> "done",
                 resp |-> [i \in 1..(Len(pdf_order) - 1) |-> list_entry(pdf_order[i])]]]
    /\ UNCHANGED <<calc, pdf_documents, pdf_order, tempfiles, up, rag, chat>>

ListPdfs(l) ==
    /\ lst[l].pc = "idle"
    /\ lst' = [lst EXCEPT ![l] =
                [pc |-> "done",
                 resp |-> [i \in 1..Len(pdf_order) |-> list_entry(pdf_order[i])]]]
    /\ UNCHANGED <<calc, pdf_documents, pdf_order, tempfiles, up, rag, chat>>

----------------------------------------------------------------------------
(* chat_rag, app.py:154-205 *)

\* as ChatRag, with the search of lines 167-171 done before the check of
\* lines 160-161 (on an empty store when the id is unknown)
ChatRag_SearchFirst(r) ==
    /\ rag[r].pc = "idle"
    /\ \E id \in RequestIds, q \in Queries :
        LET vector_db == IF id \in DOMAIN pdf_documents
                         THEN pdf_documents[id].vector_db ELSE <<>>
            relevant_chunks == search_by_text(vector_db, Embedding(QueryText(q)), k)
            e == HTTPException(404, "PDF not found")
        IN  IF id \notin DOMAIN pdf_documents
            THEN rag' = [rag EXCEPT ![r] = [@ EXCEPT
                            !.pc = "done",
                            !.pdf_id = id,
                            !.embed_calls = 1,
                            !.raised = e,
                            !.resp = ErrorResponse(except_chat_rag(e))]]
            ELSE rag' = [rag EXCEPT ![r] = [@ EXCEPT
                            !.pc = "streaming",
                            !.pdf_id = id,
                            !.embed_calls = 1,
                            !.context = join(relevant_chunks),
                            !.resp = StreamingResponse]]
    /\ UNCHANGED <<calc, pdf_documents, pdf_order, tempfiles, up, chat, lst>>

\* as ChatRag, without the search of lines 167-171: the prompt is composed
\* from an empty context
ChatRag_NoRetrieval(r) ==
    /\ rag[r].pc = "idle"
    /\ \E id \in RequestIds :
        IF id \notin DOMAIN pdf_documents
        THEN LET e == HTTPException(404, "PDF not found")
             IN  rag' = [rag EXCEPT ![r] = [@ EXCEPT
                            !.pc = "done",
                            !.pdf_id = id,
                            !.raised = e,
                            !.resp = ErrorResponse(except_chat_rag(e))]]
        ELSE rag' = [rag EXCEPT ![r] = [@ EXCEPT
                            !.pc = "streaming",
                            !.pdf_id = id,
                            !.resp = StreamingResponse]]
    /\ UNCHANGED <<calc, pdf_documents, pdf_order, tempfiles, up, chat, lst>>

\* lines 158-205: the handler awaits nothing, it runs in one piece up to the
\* return of the StreamingResponse
ChatRag(r) ==
    /\ rag[r].pc = "idle"
    /\ \E id \in RequestIds, q \in Queries :
        IF id \notin DOMAIN pdf_documents
        THEN LET e == HTTPException(404, "PDF not found")
             IN  rag' = [rag EXCEPT ![r] = [@ EXCEPT
                            !.pc = "done",
                            !.pdf_id = id,
                            !.raised = e,
                            !.resp = ErrorResponse(except_chat_rag(e))]]
        ELSE LET vector_db == pdf_documents[id].vector_db
                 relevant_chunks == search_by_text(vector_db, Embedding(QueryText(q)), k)
             IN  \/ rag' = [rag EXCEPT ![r] = [@ EXCEPT
                            !.pc = "streaming",
                            !.pdf_id = id,
                            !.embed_calls = 1,
                            !.context = join(relevant_chunks),
                            !.resp = StreamingResponse]]
                 \* search_by_text: the embedding of the query fails
                 \/ LET e == ProviderError("embedding failed")
                    IN  rag' = [rag EXCEPT ![r] = [@ EXCEPT
                            !.pc = "done",
                            !.pdf_id = id,
                            !.embed_calls = 1,
                            !.raised = e,
                            !.resp = ErrorResponse(except_chat_rag(e))]]
    /\ UNCHANGED <<calc, pdf_documents, pdf_order, tempfiles, up, chat, lst>>

\* lines 198-200: the response pulls the generator; "async for chunk in
\* chat_model.astream(messages): yield chunk" takes the next fragment of the
\* generation stream and yields it
RagPullFragment(r) ==
    /\ rag[r].pc = "streaming"
    /\ Len(rag[r].produced) < MaxStream
    /\ \E f \in Fragments :
        rag' = [rag EXCEPT ![r] = [@ EXCEPT
                    !.gen_calls = 1,
                    !.produced = Append(@, f),
                    !.delivered = Append(@, f)]]
    /\ UNCHANGED <<calc, pdf_documents, pdf_order, tempfiles, up, chat, lst>>

\* the generation stream is exhausted: the generator returns
RagPullEnd(r) ==
    /\ rag[r].pc = "streaming"
    /\ rag' = [rag EXCEPT ![r] = [@ EXCEPT
                    !.pc = "done",
                    !.gen_calls = 1,
                    !.terminal = "completed"]]
    /\ UNCHANGED <<calc, pdf_documents, pdf_order, tempfiles, up, chat, lst>>

\* the generation stream raises: the exception leaves the generator
RagPullError(r) ==
    /\ rag[r].pc = "streaming"
    /\ rag' = [rag EXCEPT ![r] = [@ EXCEPT
                    !.pc = "done",
                    !.gen_calls = 1,
                    !.terminal = "failed",
                    !.raised = ProviderError("generation failed")]]
    /\ UNCHANGED <<calc, pdf_documents, pdf_order, tempfiles, up, chat, lst>>

\* the caller closes the connection while the response streams: the
\* response task is cancelled, and the cancellation is raised in the
\* generator where it awaits the next item of astream
RagDisconnect(r) ==
    /\ rag[r].pc = "streaming"
    /\ rag' = [rag EXCEPT ![r] = [@ EXCEPT
                    !.pc = "cancelled",
                    !.caller = "gone",
                    !.terminal = "cancelled"]]
    /\ UNCHANGED <<calc, pdf_documents, pdf_order, tempfiles, up, chat, lst>>

----------------------------------------------------------------------------
(* chat, app.py:57-84 *)

\* as Chat, with the create() call of lines 65-72 made in the handler, before
\* the return of line 80: its failure is caught by the except clause of lines
\* 82-84
Chat_EagerCreate(c) ==
    /\ chat[c].pc = "idle"
    /\ \E opened \in BOOLEAN :
        LET e == ProviderError("generation failed")
        IN  IF opened
            THEN chat' = [chat EXCEPT ![c] = [@ EXCEPT
                            !.pc = "streaming",
                            !.gen_calls = 1,
                            !.resp = StreamingResponse]]
            ELSE chat' = [chat EXCEPT ![c] = [@ EXCEPT
                            !.pc = "done",
                            !.gen_calls = 1,
                            !.raised = e,
                            !.resp = ErrorResponse(except_chat(e))]]
    /\ UNCHANGED <<calc, pdf_documents, pdf_order, tempfiles, up, rag, lst>>

\* lines 58-80: the handler creates the client and the generator object and
\* returns the StreamingResponse; the generator body has not run yet
Chat(c) ==
    /\ chat[c].pc = "idle"
    /\ chat' = [chat EXCEPT ![c] = [@ EXCEPT
                    !.pc = "streaming",
                    !.resp = StreamingResponse]]
    /\ UNCHANGED <<calc, pdf_documents, pdf_order, tempfiles, up, rag, lst>>

\* as ChatPullChunk, without the test of line 76: every content is yielded
ChatPullChunk_NoTest(c) ==
    /\ chat[c].pc = "streaming"
    /\ Len(chat[c].produced) < MaxStream
    /\ \E d \in Deltas :
        chat' = [chat EXCEPT ![c] = [@ EXCEPT
                    !.gen_calls = 1,
                    !.produced = Append(@, d),
                    !.delivered = Append(@, d)]]
    /\ UNCHANGED <<calc, pdf_documents, pdf_order, tempfiles, up, rag, lst>>

\* lines 65-77: the generator takes the next chunk of the stream (opening the
\* stream first, on the first pull) and yields its content unless it is None.
\* The loop is a plain "for" over the synchronous client's stream: it blocks
\* in next(stream) and nothing can interrupt it there. When the caller is
\* gone, the yielded content is not sent and the generator is closed at the
\* yield.
ChatPullChunk(c) ==
    /\ chat[c].pc = "streaming"
    /\ Len(chat[c].produced) < MaxStream
    /\ \E d \in Deltas :
        chat' = [chat EXCEPT ![c] = [@ EXCEPT
                    !.gen_calls = 1,
                    !.produced = Append(@, d),
                    !.delivered = IF d # None /\ chat[c].caller = "connected"
                                  THEN Append(@, d) ELSE @,
                    !.pc = IF d # None /\ chat[c].caller = "gone"
                           THEN "cancelled" ELSE @,
                    !.terminal = IF d # None /\ chat[c].caller = "gone"
                                 THEN "cancelled" ELSE @]]
    /\ UNCHANGED <<calc, pdf_documents, pdf_order, tempfiles, up, rag, lst>>

\* the stream is exhausted: the for loop ends and the generator returns
ChatPullEnd(c) ==
    /\ chat[c].pc = "streaming"
    /\ chat' = [chat EXCEPT ![c] = [@ EXCEPT
                    !.pc = "done",
                    !.gen_calls = 1,
                    !.terminal = "completed"]]
    /\ UNCHANGED <<calc, pdf_documents, pdf_order, tempfiles, up, rag, lst>>

\* as ChatPullError, with the loop of lines 75-77 inside "try: ... except
\* Exception: return": the generator ends as if the stream were exhausted
ChatPullError_Swallowed(c) ==
    /\ chat[c].pc = "streaming"
    /\ chat' = [chat EXCEPT ![c] = [@ EXCEPT
                    !.pc = "done",
                    !.gen_calls = 1,
                    !.terminal = "completed",
                    !.raised = ProviderError("generation failed")]]
    /\ UNCHANGED <<calc, pdf_documents, pdf_order, tempfiles, up, rag, lst>>

\* create() or the iteration of the stream raises: the exception leaves the
\* generator; the handler has returned already
ChatPullError(c) ==
    /\ chat[c].pc = "streaming"
    /\ chat' = [chat EXCEPT ![c] = [@ EXCEPT
                    !.pc = "done",
                    !.gen_calls = 1,
                    !.terminal = "failed",
                    !.raised = ProviderError("generation failed")]]
    /\ UNCHANGED <<calc, pdf_documents, pdf_order, tempfiles, up, rag, lst>>

\* the caller closes the connection while the response streams. The
\* generator has been resumed as soon as the last fragment was sent, so it
\* is blocked in next(stream) at line 75: it is closed only when it comes
\* back to a yield (or ends).
ChatDisconnect(c) ==
    /\ chat[c].pc = "streaming"
    /\ chat[c].gen_calls = 1
    /\ chat[c].caller = "connected"
    /\ chat' = [chat EXCEPT ![c] = [@ EXCEPT !.caller = "gone"]]
    /\ UNCHANGED <<calc, pdf_documents, pdf_order, tempfiles, up, rag, lst>>

----------------------------------------------------------------------------
(* The text splitter called alone *)

SplitArgs ==
    { [len |-> n, size |-> sz, overlap |-> ov] :
        n \in 0..MaxTextLength, sz \in 1..MaxChunkSize, ov \in 0..(MaxChunkSize - 1) }

InitSplit ==
    /\ InitApp
    /\ \E a \in SplitArgs :
        /\ a.overlap < a.size
        /\ calc = [stage |-> "args", args |-> a, result |-> <<>>]

\* CharacterTextSplitter(chunk_size, chunk_overlap).split(text)
CallSplit ==
    /\ calc.stage = "args"
    /\ calc' = [calc EXCEPT
                    !.stage = "result",
                    !.result = split(Text(1, 0, calc.args.len),
                                     calc.args.size, calc.args.overlap)]
    /\ UNCHANGED <<pdf_documents, pdf_order, tempfiles, up, rag, chat, lst>>

----------------------------------------------------------------------------
(* The vector store searched alone *)

\* embedding vectors: two of the same direction, one opposite to another
Vectors == { <<1, 0>>, <<0, 1>>, <<1, 1>>, <<2, 2>>, <<-1, 0>> }

\* the stores of n entries: entry i holds the i-th chunk of a document
StoresOf(n) ==
    { [i \in 1..n |-> [text |-> Text(1, i - 1, i), vector |-> v[i]]] :
        v \in [1..n -> Vectors] }

InitSearch ==
    /\ InitApp
    /\ \E n \in 0..MaxStore, q \in Vectors, kk \in 0..MaxK :
        \E db \in StoresOf(n) :
            calc = [stage |-> "args",
                    args |-> [db |-> db, q |-> q, k |-> kk],
                    result |-> <<>>]

\* VectorDatabase.search_by_text(query, k, return_as_text=True)
CallSearch ==
    /\ calc.stage = "args"
    /\ calc' = [calc EXCEPT
                    !.stage = "result",
                    !.result = search_by_text(calc.args.db, calc.args.q, calc.args.k)]
    /\ UNCHANGED <<pdf_documents, pdf_order, tempfiles, up, rag, chat, lst>>

----------------------------------------------------------------------------
(* Specifications *)

UploadStep(u) ==
    \/ UploadValidate(u)
    \/ UploadLoad(u)
    \/ UploadEmbed(u)
    \/ UploadEmbedFail(u)
    \/ UploadStore(u)
    \/ UploadCancel(u)

\* the registry under concurrent uploads, lookups and listings
Next ==
    \/ \E u \in Uploads : UploadStep(u)
    \/ \E l \in ListRequests : ListPdfs(l)
    \/ \E r \in RagRequests : ChatRag(r)

Spec == Init /\ [][Next]_vars

\* the two streaming paths, with the uploads of one client
NextStream ==
    \/ UploadStep(1)
    \/ \E r \in RagRequests : ChatRag(r)
    \/ \E r \in RagRequests : RagPullFragment(r)
    \/ \E r \in RagRequests : RagPullEnd(r)
    \/ \E r \in RagRequests : RagPullError(r)
    \/ \E c \in ChatRequests : Chat(c)
    \/ \E c \in ChatRequests : ChatPullChunk(c)
    \/ \E c \in ChatRequests : ChatPullEnd(c)
    \/ \E c \in ChatRequests : ChatPullError(c)

SpecStream == Init /\ [][NextStream]_vars

\* the two streaming paths with callers that may disconnect
NextCancel ==
    \/ UploadStep(1)
    \/ \E r \in RagRequests : ChatRag(r)
    \/ \E r \in RagRequests : RagPullFragment(r)
    \/ \E r \in RagRequests : RagPullEnd(r)
    \/ \E r \in RagRequests : RagPullError(r)
    \/ \E r \in RagRequests : RagDisconnect(r)
    \/ \E c \in ChatRequests : Chat(c)
    \/ \E c \in ChatRequests : ChatPullChunk(c)
    \/ \E c \in ChatRequests : ChatPullEnd(c)
    \/ \E c \in ChatRequests : ChatPullError(c)
    \/ \E c \in ChatRequests : ChatDisconnect(c)

SpecCancel == Init /\ [][NextCancel]_vars

\* the splitter on every text and configuration within the bounds
NextSplit == CallSplit

SpecSplit == InitSplit /\ [][NextSplit]_vars

\* the search on every store, query and k within the bounds
NextSearch == CallSearch

SpecSearch == InitSearch /\ [][NextSearch]_vars

----------------------------------------------------------------------------
(* Properties *)

Registered == DOMAIN pdf_documents

\* the upload's build failed: an embedding call of abuild_from_list raised
BuildFailed(u) == up[u].raised.type = "ProviderError"

\* the upload returned its success response
Succeeded(u) == up[u].pc = "done" /\ up[u].resp.status_code = 200

\* the registry holds nothing that comes from the file of upload u
NothingOf(u) ==
    \A id \in Registered :
        /\ \A i \in DOMAIN pdf_documents[id].chunks :
                pdf_documents[id].chunks[i].doc # u
        /\ \A i \in DOMAIN pdf_documents[id].vector_db :
                pdf_documents[id].vector_db[i].text.doc # u

\* C1: an upload whose build failed on an embedding call never has its id
\* registered, neither get nor list shows it, and the failing step leaves the
\* registry as it was.
C1_BuildAllOrNothing ==
    [][\A u \in Uploads :
        BuildFailed(u)' =>
            /\ up'[u].pdf_id \notin DOMAIN pdf_documents'
            /\ \A i \in DOMAIN pdf_order' : pdf_order'[i] # up'[u].pdf_id
            /\ NothingOf(u)'
            /\ (~BuildFailed(u) =>
                    pdf_documents' = pdf_documents /\ pdf_order' = pdf_order)]_vars

\* a build that failed on its second chunk, after another upload registered
C1_Witness ==
    \E u \in Uploads :
        /\ BuildFailed(u)
        /\ up[u].embed_calls = 2
        /\ Len(up[u].vector_db) = 1
        /\ Registered # {}

\* the document data a finished build of upload u is to hold
ExpectedDocument(u) ==
    LET chunks == split_texts(<< Text(u, 0, text_length(u)) >>, chunk_size, chunk_overlap)
    IN  [filename |-> up[u].filename,
         chunks |-> chunks,
         vector_db |-> [i \in DOMAIN chunks |->
                            [text |-> chunks[i], vector |-> Embedding(chunks[i])]],
         document_count |-> Len(chunks)]

Owner(id) == CHOOSE u \in Uploads : up[u].pdf_id = id

\* C2: whatever the interleaving, every entry a reader finds in the registry
\* belongs to an upload whose build has finished successfully and is complete
\* (filename, all chunks, the whole vector store, the chunk count); a listing
\* or a lookup never shows the id of an upload still in progress.
C2_NoPartialDocument ==
    /\ \A id \in Registered :
        /\ \E u \in Uploads : up[u].pdf_id = id
        /\ Succeeded(Owner(id))
        /\ pdf_documents[id] = ExpectedDocument(Owner(id))
    /\ \A l \in ListRequests : \A i \in DOMAIN lst[l].resp :
        \E u \in Uploads : up[u].pdf_id = lst[l].resp[i].pdf_id /\ Succeeded(u)
    /\ \A r \in RagRequests :
        rag[r].pc = "streaming" =>
            \E u \in Uploads : up[u].pdf_id = rag[r].pdf_id /\ Succeeded(u)

\* a lookup has missed the id of an upload that is in the middle of its build
C2_Witness ==
    \E u \in Uploads, r \in RagRequests, l \in ListRequests :
        /\ up[u].pc = "building"
        /\ Len(up[u].vector_db) = 1
        /\ rag[r].pc = "done"
        /\ rag[r].pdf_id = up[u].pdf_id
        /\ lst[l].pc = "done"

\* C3: after concurrent successful uploads every id looks up exactly the
\* document inserted for it: no insertion is lost or overwritten and no
\* document holds the filename, chunks or vector store of another upload.
C3_NoLostInsert ==
    /\ \A u \in Uploads :
        Succeeded(u) =>
            /\ up[u].pdf_id \in Registered
            /\ pdf_documents[up[u].pdf_id].filename = up[u].filename
            /\ pdf_documents[up[u].pdf_id].chunks = up[u].chunks
            /\ pdf_documents[up[u].pdf_id].vector_db = up[u].vector_db
            /\ \A i \in DOMAIN up[u].chunks :
                /\ pdf_documents[up[u].pdf_id].chunks[i].doc = u
                /\ pdf_documents[up[u].pdf_id].vector_db[i].text.doc = u
    /\ \A u, v \in Uploads :
        Succeeded(u) /\ Succeeded(v) /\ u # v => up[u].pdf_id # up[v].pdf_id
    /\ Cardinality(Registered) = Cardinality({u \in Uploads : Succeeded(u)})

\* every upload has succeeded
C3_Witness ==
    /\ \A u \in Uploads : Succeeded(u)
    /\ \E u, v \in Uploads : up[u].filename # up[v].filename

\* the request named an id that the registry does not hold
Absent(r) == rag[r].pc # "idle" /\ rag[r].pdf_id \notin Registered

\* C4: a chat-rag request for an id absent from the registry fails with the
\* NotFound kind (404), which differs from the kind of an internal or a
\* provider failure (500).
C4_NotFoundKind ==
    \A r \in RagRequests :
        Absent(r) => rag[r].pc = "done" /\ rag[r].resp.status_code = 404

\* C5: a chat-rag request for an id absent from the registry calls neither
\* the embedding nor the generation capability, delivers no fragment and
\* leaves the registry unchanged.
C5_NotFoundNoCalls ==
    [][\A r \in RagRequests :
        Absent(r)' =>
            /\ rag'[r].embed_calls = 0
            /\ rag'[r].gen_calls = 0
            /\ rag'[r].produced = <<>>
            /\ rag'[r].delivered = <<>>
            /\ rag'[r].resp.status_code >= 400
            /\ (rag[r].pc = "idle" =>
                    pdf_documents' = pdf_documents /\ pdf_order' = pdf_order)]_vars

\* a lookup of an unknown id, with a document of another id registered
C5_Witness ==
    \E r \in RagRequests :
        /\ Absent(r)
        /\ rag[r].raised.status_code = 404
        /\ Registered # {}

\* the upload was rejected by a validation: its file name does not end in
\* .pdf, or no text was extracted from its file
WrongFileType(u) ==
    /\ up[u].pc # "idle"
    /\ LET n == Len(up[u].filename)
       IN  \/ n < 4
           \/ <<up[u].filename[n - 3], up[u].filename[n - 2],
                up[u].filename[n - 1], up[u].filename[n]>>
                \notin { <<".", p, d, f>> : p \in {"p", "P"}, d \in {"d", "D"},
                                            f \in {"f", "F"} }
NoTextExtracted(u) == up[u].content = "empty"
Rejected(u) == WrongFileType(u) \/ NoTextExtracted(u)

\* C6: an upload that fails validation ends as a failure before any call to
\* the embedding capability and registers nothing.
C6_ValidationBeforeProvider ==
    \A u \in Uploads :
        Rejected(u) =>
            /\ up[u].pc = "done"
            /\ up[u].resp.status_code >= 400
            /\ up[u].embed_calls = 0
            /\ up[u].vector_db = <<>>
            /\ up[u].pdf_id \notin Registered
            /\ NothingOf(u)
            /\ u \notin tempfiles

\* one upload was rejected for its file type and one for its empty text
C6_Witness ==
    \E u, v \in Uploads :
        /\ WrongFileType(u) /\ up[u].pc = "done"
        /\ NoTextExtracted(v) /\ up[v].pc = "done"

\* C7: an upload rejected for a wrong file type or for empty extracted text
\* is reported with the InvalidInput kind (400), not with the InternalError
\* kind (500).
C7_InvalidInputKind ==
    \A u \in Uploads :
        Rejected(u) => up[u].resp.status_code = 400

\* the (id, filename, chunkCount) entries of the documents registered now
EntriesNow ==
    { [pdf_id |-> id,
       filename |-> pdf_documents[id].filename,
       chunks |-> pdf_documents[id].document_count] : id \in Registered }

\* C8: list() returns a snapshot of the registry at call time: one entry
\* (id, filename, chunkCount) per document registered at that moment, none
\* before any upload has succeeded, and a later registration does not change
\* a snapshot already returned.
C8_ListSnapshot ==
    [][\A l \in ListRequests :
        /\ (lst[l].pc = "idle" /\ lst'[l].pc = "done") =>
                /\ { lst'[l].resp[i] : i \in DOMAIN lst'[l].resp } = EntriesNow
                /\ Len(lst'[l].resp) = Cardinality(Registered)
                /\ (\A u \in Uploads : ~Succeeded(u)) => lst'[l].resp = <<>>
        /\ lst[l].pc = "done" => lst'[l] = lst[l]]_vars

\* a listing returned one document, and a second one was registered later
C8_Witness ==
    \E l \in ListRequests :
        /\ lst[l].pc = "done"
        /\ Len(lst[l].resp) = 1
        /\ Cardinality(Registered) = 2

\* the text fragments of a sequence of chunk contents, in order
RECURSIVE TextFragments(_)
TextFragments(seq) ==
    IF seq = <<>> THEN <<>>
    ELSE IF Head(seq) = None THEN TextFragments(Tail(seq))
    ELSE << Head(seq) >> \o TextFragments(Tail(seq))

\* C9: on both paths the fragments delivered so far are the text fragments
\* the generation capability has produced so far, in the order it produced
\* them: none is reordered, duplicated, dropped or held back while the next
\* one is pulled.
C9_FragmentOrder ==
    /\ \A c \in ChatRequests : chat[c].delivered = TextFragments(chat[c].produced)
    /\ \A r \in RagRequests : rag[r].delivered = rag[r].produced

\* both paths have delivered two different fragments, the passthrough path
\* after a chunk without content
C9_Witness ==
    /\ \E c \in ChatRequests :
        /\ chat[c].produced = <<"Hel", None, "lo">>
        /\ chat[c].delivered = <<"Hel", "lo">>
    /\ \E r \in RagRequests : rag[r].delivered = <<"lo", "Hel", "lo">>

\* C10: when the generation capability fails after fragments were delivered,
\* the stream ends with the failure and not with a completion: the delivered
\* fragments stand, nothing is delivered afterwards, and the ending differs
\* from that of a completed stream.
C10_StreamFailure ==
    [][/\ \A c \in ChatRequests :
            /\ chat'[c].raised.type = "ProviderError" =>
                    /\ chat'[c].pc = "done"
                    /\ chat'[c].terminal = "failed"
                    /\ chat'[c].delivered = chat[c].delivered
                    /\ chat'[c].resp = chat[c].resp
            /\ chat'[c].terminal = "completed" => chat'[c].raised = NoExc
       /\ \A r \in RagRequests :
            /\ (rag'[r].raised.type = "ProviderError" /\ rag'[r].gen_calls = 1) =>
                    /\ rag'[r].pc = "done"
                    /\ rag'[r].terminal = "failed"
                    /\ rag'[r].delivered = rag[r].delivered
                    /\ rag'[r].resp = rag[r].resp
            /\ rag'[r].terminal = "completed" => rag'[r].raised = NoExc]_vars

\* both paths have failed after delivering a fragment
C10_Witness ==
    /\ \E c \in ChatRequests :
        chat[c].terminal = "failed" /\ Len(chat[c].delivered) >= 1
    /\ \E r \in RagRequests :
        rag[r].terminal = "failed" /\ Len(rag[r].delivered) >= 1

\* C11: once the caller of a stream is gone, having received a fragment, no
\* further chunk is taken from the generation capability for that stream.
C11_NoPullAfterDisconnect ==
    [][/\ \A c \in ChatRequests :
            (chat[c].caller = "gone" /\ chat[c].delivered # <<>>) =>
                chat'[c].produced = chat[c].produced
       /\ \A r \in RagRequests :
            (rag[r].caller = "gone" /\ rag[r].delivered # <<>>) =>
                rag'[r].produced = rag[r].produced]_vars

\* ceil(a / b) for b > 0
CeilDiv(a, b) == -((-a) \div b)

SplitDone == calc.stage = "result" /\ calc.args.len > 0

\* chunk i (counted from 0) starts at i * (size - overlap), is at most size
\* long, and the last chunk ends the text
WindowsOf(chunks, a) ==
    /\ \A i \in DOMAIN chunks :
        /\ chunks[i].start = (i - 1) * (a.size - a.overlap)
        /\ chunks[i].stop = Min(chunks[i].start + a.size, a.len)
    /\ chunks # <<>> => chunks[Len(chunks)].stop = a.len

\* C12, as stated: for every non-empty text and every configuration the
\* chunker produces ceil((len - overlap) / (size - overlap)) chunks, and one
\* chunk whenever len <= size.
C12_ChunkCount_Stated ==
    SplitDone =>
        /\ Len(calc.result) =
                CeilDiv(calc.args.len - calc.args.overlap,
                        calc.args.size - calc.args.overlap)
        /\ calc.args.len <= calc.args.size => Len(calc.result) = 1

\* C12, amended: for every non-empty text longer than the overlap the chunker
\* produces ceil((len - overlap) / (size - overlap)) chunks, chunk i starting
\* at i * (size - overlap); every non-empty text of at most size characters,
\* also one no longer than the overlap, gives one chunk.
C12_ChunkCount ==
    SplitDone =>
        /\ WindowsOf(calc.result, calc.args)
        /\ calc.args.len > calc.args.overlap =>
                Len(calc.result) =
                    CeilDiv(calc.args.len - calc.args.overlap,
                            calc.args.size - calc.args.overlap)
        /\ calc.args.len <= calc.args.size => Len(calc.result) = 1

\* a text cut into three chunks or more with an overlap, the last one short
C12_Witness ==
    /\ SplitDone
    /\ calc.args.overlap > 0
    /\ Len(calc.result) >= 3
    /\ TextLength(calc.result[Len(calc.result)]) < calc.args.size

SearchDone == calc.stage = "result"

\* the index in the store of the j-th result
ResultIndex(j) == calc.result[j].start + 1
ResultVector(j) == calc.args.db[ResultIndex(j)].vector

\* C13: the result of search is sorted by descending similarity, entries of
\* equal score are in ascending chunk index, and it holds at most k entries
\* and at most as many as the store (none for an empty store).
C13_SearchOrder ==
    SearchDone =>
        /\ Len(calc.result) <= calc.args.k
        /\ Len(calc.result) <= Len(calc.args.db)
        /\ calc.args.db = <<>> => calc.result = <<>>
        /\ \A j \in DOMAIN calc.result :
            /\ ResultIndex(j) \in DOMAIN calc.args.db
            /\ calc.result[j] = calc.args.db[ResultIndex(j)].text
        /\ \A i, j \in DOMAIN calc.result :
            i < j =>
                /\ ~CosineGreater(ResultVector(j), ResultVector(i), calc.args.q)
                /\ \/ CosineGreater(ResultVector(i), ResultVector(j), calc.args.q)
                   \/ ResultIndex(i) < ResultIndex(j)

\* a search cut to two results: the last entry of the store, of the highest
\* score, then the first of two entries of equal score
C13_Witness ==
    /\ SearchDone
    /\ Len(calc.args.db) = 3
    /\ calc.args.k = 2
    /\ Len(calc.result) = 2
    /\ ResultIndex(1) = 3
    /\ ResultIndex(2) = 1
    /\ ~CosineGreater(calc.args.db[1].vector, calc.args.db[2].vector, calc.args.q)
    /\ ~CosineGreater(calc.args.db[2].vector, calc.args.db[1].vector, calc.args.q)

\* how a request (a record of rag or chat) has ended
Ended(s) == s.pc \in {"done", "cancelled"}
Completed(s) == s.terminal = "completed"
Failed(s) == s.terminal = "failed" \/ s.resp.status_code >= 400
Cancelled(s) == s.terminal = "cancelled"
ExactlyOneEnd(s) ==
    IF Ended(s)
    THEN Cardinality({ e \in {"completed", "failed", "cancelled"} :
                        \/ e = "completed" /\ Completed(s)
                        \/ e = "failed" /\ Failed(s)
                        \/ e = "cancelled" /\ Cancelled(s) }) = 1
    ELSE ~Completed(s) /\ ~Failed(s) /\ ~Cancelled(s)

\* C14: a RAG request invokes the generation capability only after the lookup
\* of its document succeeded and the context was retrieved and composed, it
\* streams only after the generation was invoked, and it ends in exactly one
\* of completed, failed, cancelled; a passthrough request goes to the
\* generation with no retrieval step and ends the same way.
C14_PhaseOrder ==
    /\ \A r \in RagRequests :
        /\ rag[r].gen_calls = 1 =>
                /\ rag[r].pdf_id \in Registered
                /\ rag[r].embed_calls = 1
                /\ rag[r].context # <<>>
                /\ rag[r].resp.status_code = 200
        /\ rag[r].produced # <<>> => rag[r].gen_calls = 1
        /\ rag[r].resp.status_code >= 400 =>
                rag[r].gen_calls = 0 /\ rag[r].produced = <<>>
        /\ rag[r].pc = "streaming" => rag[r].resp.status_code = 200
        /\ ExactlyOneEnd(rag[r])
    /\ \A c \in ChatRequests :
        /\ chat[c].gen_calls = 1 => chat[c].resp.status_code = 200
        /\ chat[c].produced # <<>> => chat[c].gen_calls = 1
        /\ ExactlyOneEnd(chat[c])

\* a RAG request was cancelled after a fragment, and a passthrough request
\* completed after one
C14_Witness ==
    /\ \E r \in RagRequests : Cancelled(rag[r]) /\ rag[r].delivered # <<>>
    /\ \E c \in ChatRequests : Completed(chat[c]) /\ chat[c].delivered # <<>>

\* the request has retrieved its context
Retrieved(r) == rag[r].pc # "idle" /\ rag[r].resp.status_code = 200

\* the chunk texts of a context string: what stands between the separators
ContextTexts(ctx) == [j \in 1..((Len(ctx) + 1) \div 2) |-> ctx[2 * j - 1]]

Finished(u) == up[u].pc \in {"done", "cancelled"}

\* C18: no finished upload leaves its temporary file behind.
C18_TempFileDeleted ==
    \A u \in Uploads : Finished(u) => u \notin tempfiles

\* C16: a registered document is never removed, replaced or updated: in every
\* step the registered ids stay registered, each with the same filename,
\* chunks, vector store and chunk count, and the insertion order is only
\* extended.
C16_RegistryOnlyGrows ==
    [][/\ \A id \in DOMAIN pdf_documents :
            /\ id \in DOMAIN pdf_documents'
            /\ pdf_documents'[id] = pdf_documents[id]
       /\ Len(pdf_order') >= Len(pdf_order)
       /\ SubSeq(pdf_order', 1, Len(pdf_order)) = pdf_order]_vars

\* a second document is registered, and a query and a listing have run, while
\* the first one is still there
C16_Witness ==
    /\ Len(pdf_order) = 2
    /\ \A i \in 1..2 : pdf_order[i] \in DOMAIN pdf_documents
    /\ \E r \in RagRequests : rag[r].pc # "idle"
    /\ \E l \in ListRequests : lst[l].pc = "done"

\* C17: for every registered document the stored chunk count is the length of
\* its chunk sequence and the number of entries of its vector store; the
\* chunk count of an upload's response is the one every listing reports for
\* that id.
C17_ChunkCountAgrees ==
    /\ \A id \in DOMAIN pdf_documents :
        /\ pdf_documents[id].document_count = Len(pdf_documents[id].chunks)
        /\ pdf_documents[id].document_count = Len(pdf_documents[id].vector_db)
    /\ \A u \in Uploads, l \in ListRequests :
        (Succeeded(u) /\ lst[l].pc = "done") =>
            \A i \in DOMAIN lst[l].resp :
                lst[l].resp[i].pdf_id = up[u].pdf_id =>
                    lst[l].resp[i].chunks = up[u].resp.content.chunks

\* a listing reports the four chunks of a document whose upload answered
\* with four chunks
C17_Witness ==
    \E u \in Uploads, l \in ListRequests :
        /\ Succeeded(u)
        /\ up[u].resp.content.chunks = 4
        /\ lst[l].pc = "done"
        /\ \E i \in DOMAIN lst[l].resp :
            /\ lst[l].resp[i].pdf_id = up[u].pdf_id
            /\ lst[l].resp[i].chunks = 4

====
